---------------------------- MODULE Spec2Model ----------------------------
(***************************************************************************)
(* A model of the PAT browser's collection pipeline:                       *)
(*   EncryptedStore        (browser/src/storage/encrypted_store.{h,cc})    *)
(*   PrivacyFilter         (browser/src/collector/privacy_filter.{h,cc})   *)
(*   BrowsingDataCollector (browser/src/collector/browsing_data_collector) *)
(*   IntentAnalyzer        (browser/src/qwen/intent_analyzer.{h,cc})       *)
(*   QwenClient            (browser/src/qwen/qwen_client.{h,cc})           *)
(*                                                                         *)
(* Strings the code inspects character by character (hosts, selectors,     *)
(* domain keywords) are sequences of one-character strings.  A search      *)
(* query is the sequence of its blank-separated words.  Times are integer  *)
(* microseconds (base::Time / base::TimeDelta), scroll depths are integer  *)
(* tenths (3 is 0.3), confidence scores are integer hundredths (75 is      *)
(* 0.75).                                                                  *)
(***************************************************************************)
EXTENDS Integers, Sequences, FiniteSets, TLC

VARIABLES
  events_,                 \* EncryptedStore::events_
  encryption_key_,         \* EncryptedStore::encryption_key_
  current_scroll_depth_,   \* BrowsingDataCollector::current_scroll_depth_
  collection_enabled_,     \* BrowsingDataCollector::collection_enabled_
  user_excluded_domains_,  \* PrivacyFilter::user_excluded_domains_
  exclude_banking_,        \* PrivacyFilter::exclude_banking_
  exclude_healthcare_,     \* PrivacyFilter::exclude_healthcare_
  exclude_social_media_,   \* PrivacyFilter::exclude_social_media_
  now,                     \* the host clock read by base::Time::Now()
  lastCall,                \* history: the last public call, its arguments and
                           \*          its return value
  fifoBase,                \* history of the store called directly: events_ when
                           \*          it last held exactly capacity
  fifoNew,                 \* history: events stored by StoreEvent since then
  scrollBase,              \* history: running depth when the OnScroll run began
  scrollRun,               \* history: the current run of OnScroll values
  peakSinceLoad,           \* history: the largest OnScroll value delivered, with
                           \*          collection enabled, since the last OnPageLoad
                           \*          call (0 if none)
  exported,                \* the caller's copy of the last ExportEncrypted
                           \*          result: the blob, and as history the
                           \*          events and the key it was made from
  model_handle_,           \* IntentAnalyzer::model_handle_ (0 is nullptr)
  is_ready_,               \* IntentAnalyzer::is_ready_
  cached_intents_,         \* IntentAnalyzer::cached_intents_
  min_confidence_,         \* IntentAnalyzer::min_confidence_
  pc,                      \* for each thread inside StoreEvent, where it is
  observed,                \* what the last read by another thread returned
  pushLog,                 \* history: the events pushed by the threads, in
                           \*          the order of their push_back
  loaded,                  \* the model runtime: how many LoadModel calls
                           \*          returned a handle
  unloaded,                \* the model runtime: how many UnloadModel calls
                           \*          were handed a handle
  destroyed,               \* whether ~IntentAnalyzer() has run
  ctype_alpha              \* the bytes above 0x7F for which std::isalpha
                           \*          answers true: set by the C locale of the
                           \*          process

storeVars == <<events_, encryption_key_>>
collectorVars == <<current_scroll_depth_, collection_enabled_>>
filterVars == <<user_excluded_domains_, exclude_banking_, exclude_healthcare_,
                exclude_social_media_>>
envVars == <<now, ctype_alpha>>
callVars == <<lastCall>>
fifoVars == <<fifoBase, fifoNew>>
scrollVars == <<scrollBase, scrollRun, peakSinceLoad>>
callerVars == <<exported>>
analyzerVars == <<model_handle_, is_ready_, cached_intents_, min_confidence_>>
threadVars == <<pc, observed, pushLog>>
runtimeVars == <<loaded, unloaded, destroyed>>
vars == <<storeVars, collectorVars, filterVars, envVars, callVars, fifoVars,
          scrollVars, callerVars, analyzerVars, threadVars, runtimeVars>>

-----------------------------------------------------------------------------
(* Bounds of the model *)

\* EncryptedStore::kMaxCachedEvents is 10000 in the code; the model runs the
\* same comparison against a small capacity.
kMaxCachedEvents == 2

\* ImportEncrypted is not run when it would grow the store past this length.
MaxEvents == 3

\* The host clock stops after this many ticks.
MaxTicks == 1

\* The recorded run of OnScroll values is restarted at this length.
MaxRun == 2

\* Initialize is not run when it would load more models than this.
MaxLoads == 2

(* Program constants *)

\* Initialize: key.length() < 16
kMinKeyLength == 16

\* intent_analyzer.h: double min_confidence_ = 0.5, in hundredths
kDefaultMinConfidence == 50

\* The threads that call StoreEvent
Threads == {"hook1", "hook2"}

\* The host clock at construction, in microseconds since the epoch, and the
\* length of one tick.
StartMicros == 1500
TickMicros == 700

-----------------------------------------------------------------------------
(* event_types.h *)

BrowsingEventType ==
  <<"PAGE_LOAD", "PAGE_UNLOAD", "SCROLL", "CLICK", "FORM_SUBMIT", "SEARCH_QUERY">>

EventTypes == {BrowsingEventType[i] : i \in 1..Len(BrowsingEventType)}

\* static_cast<int>(type)
TypeToInt(t) == (CHOOSE i \in 1..Len(BrowsingEventType) : BrowsingEventType[i] = t) - 1

\* static_cast<BrowsingEventType>(i), for an i that names an enumerator
IntToType(i) == BrowsingEventType[i + 1]

\* BrowsingEvent() = default: every member with an initializer or a default
\* constructor is zero/empty; `type` has neither, so it holds whatever value
\* u the storage held.
DefaultEvent(u) ==
  [type |-> u, url_hash |-> <<>>, timestamp |-> 0, duration |-> 0,
   scroll_depth |-> 0, element_type |-> <<>>, search_query |-> <<>>,
   referrer_hash |-> <<>>]

\* BrowsingEvent(t, hash, ts)
NewEvent(t, hash, ts) ==
  [DefaultEvent(t) EXCEPT !.url_hash = hash, !.timestamp = ts]

-----------------------------------------------------------------------------
(* base::Time / base::TimeDelta conversions used by the record format *)

\* The conversion in whole milliseconds, the fraction dropped
InMillisecondsSinceUnixEpoch(t) == [ms |-> t \div 1000, frac |-> 0]

\* Time::InMillisecondsFSinceUnixEpoch(): a double, whole milliseconds plus
\* the fractional part (kept here as the remaining microseconds)
InMillisecondsFSinceUnixEpoch(t) == [ms |-> t \div 1000, frac |-> t % 1000]

\* Time::FromMillisecondsSinceUnixEpoch(double)
FromMillisecondsSinceUnixEpoch(d) == d.ms * 1000 + d.frac

\* TimeDelta::InMilliseconds(): int64, truncating
InMilliseconds(delta) == delta \div 1000

\* base::Milliseconds(x)
Milliseconds(x) == x * 1000

-----------------------------------------------------------------------------
(* Byte strings handled by Encrypt/Decrypt and the JSON reader.  A text is a *)
(* sequence of segments: the literal "[ENCRYPTED]", or a run of characters   *)
(* classified by how base::JSONReader reads it.  The empty string is <<>>.   *)

Prefix == [seg |-> "[ENCRYPTED]"]
Garbage == [seg |-> "garbage"]          \* characters that are not JSON
JsonNonList == [seg |-> "value"]        \* a JSON value that is not a list
JsonList(items) == [seg |-> "list", items |-> items]

NonDict == [isdict |-> FALSE]           \* a list item that is not a dict
Dict(fields) == [isdict |-> TRUE, fields |-> fields]

NoValue == [seg |-> "none"]

\* base::JSONReader::Read(json): a value only when the whole text is one
\* JSON value ("[ENCRYPTED]" followed by anything is not JSON)
JSONRead(text) ==
  IF Len(text) = 1 /\ text[1].seg \in {"list", "value"} THEN text[1] ELSE NoValue

\* base::JSONWriter::Write(list, &json)
JSONWrite(items) == <<JsonList(items)>>

-----------------------------------------------------------------------------
(* EncryptedStore *)

\* Initialize: the length test on the key
KeyAccepted(key) == ~(Len(key) < kMinKeyLength)

\* StoreEvent lines 37-42 with the trim the other way round (newest dropped)
PushAndTrimNewest(evs, event) ==
  IF Len(evs) + 1 > kMaxCachedEvents THEN evs ELSE Append(evs, event)

\* StoreEvent: push_back, then erase(begin()) once when over the limit
PushAndTrim(evs, event) ==
  LET pushed == Append(evs, event)
  IN  IF Len(pushed) > kMaxCachedEvents THEN Tail(pushed) ELSE pushed

\* Encrypt(plaintext)
Encrypt(key, plaintext) ==
  IF key = "" THEN plaintext ELSE <<Prefix>> \o plaintext

\* Decrypt(ciphertext)
Decrypt(key, ciphertext) ==
  IF key = "" THEN ciphertext
  ELSE IF Len(ciphertext) > 0 /\ Head(ciphertext) = Prefix THEN Tail(ciphertext)
  ELSE ciphertext

\* ExportEncrypted: the dict written for one event
EventDict(event) ==
  Dict([type |-> TypeToInt(event.type),
        url_hash |-> event.url_hash,
        timestamp |-> InMillisecondsFSinceUnixEpoch(event.timestamp),
        duration_ms |-> InMilliseconds(event.duration),
        scroll_depth |-> event.scroll_depth,
        element_type |-> event.element_type,
        search_query |-> event.search_query])

\* ImportEncrypted lines 118-155: the event built from one dict; u is the
\* value an unassigned `type` member holds
ImportedEvent(item, u) ==
  LET f == item.fields
      has(k) == k \in DOMAIN f
  IN  [type |-> IF has("type") THEN IntToType(f.type) ELSE u,
       url_hash |-> IF has("url_hash") THEN f.url_hash ELSE <<>>,
       timestamp |-> IF has("timestamp")
                     THEN FromMillisecondsSinceUnixEpoch(f.timestamp) ELSE 0,
       duration |-> IF has("duration_ms") THEN Milliseconds(f.duration_ms) ELSE 0,
       scroll_depth |-> IF has("scroll_depth") THEN f.scroll_depth ELSE 0,
       element_type |-> IF has("element_type") THEN f.element_type ELSE <<>>,
       search_query |-> IF has("search_query") THEN f.search_query ELSE <<>>,
       referrer_hash |-> <<>>]

\* The import loop storing each event through the trim of StoreEvent
RECURSIVE ImportLoopTrimmed(_, _, _)
ImportLoopTrimmed(evs, items, u) ==
  IF items = <<>> THEN evs
  ELSE ImportLoopTrimmed(IF Head(items).isdict
                         THEN PushAndTrim(evs, ImportedEvent(Head(items), u))
                         ELSE evs,
                         Tail(items), u)

\* ImportEncrypted lines 114-156: the loop over the parsed list, non-dict
\* items skipped, every event pushed at the back
RECURSIVE ImportLoop(_, _, _)
ImportLoop(evs, items, u) ==
  IF items = <<>> THEN evs
  ELSE ImportLoop(IF Head(items).isdict
                  THEN Append(evs, ImportedEvent(Head(items), u)) ELSE evs,
                  Tail(items), u)

\* ExportEncrypted: the blob returned for the events evs under key
ExportResult(evs, key) ==
  Encrypt(key, JSONWrite([i \in 1..Len(evs) |-> EventDict(evs[i])]))

\* ImportEncrypted: whether the call gets past both early returns
ImportAccepted(key, data) ==
  LET json == Decrypt(key, data)
  IN  json # <<>> /\ JSONRead(json).seg = "list"

\* ImportEncrypted: events_ after the call
ImportResult(evs, key, data, u) ==
  IF ImportAccepted(key, data)
  THEN ImportLoop(evs, JSONRead(Decrypt(key, data)).items, u)
  ELSE evs

-----------------------------------------------------------------------------
(* Character strings *)

UpperChars ==
  <<"A", "B", "C", "D", "E", "F", "G", "H", "I", "J", "K", "L", "M", "N", "O", "P", "Q", "R", "S", "T", "U", "V", "W", "X", "Y", "Z">>
LowerChars ==
  <<"a", "b", "c", "d", "e", "f", "g", "h", "i", "j", "k", "l", "m", "n", "o", "p", "q", "r", "s", "t", "u", "v", "w", "x", "y", "z">>

IsUpper(c) == \E i \in 1..Len(UpperChars) : UpperChars[i] = c
IsLower(c) == \E i \in 1..Len(LowerChars) : LowerChars[i] = c

\* Bytes above 0x7F: the Latin-1 letters E-acute, capital and small
HighBytes == {"0xC9", "0xE9"}

\* std::isalpha(c): the ASCII letters in every locale; a byte above 0x7F as
\* the locale of the process classifies it (with a signed char the argument
\* is negative there and the language leaves the answer open)
IsAlpha(c) == IsUpper(c) \/ IsLower(c) \/ c \in ctype_alpha

ToLowerChar(c) ==
  IF IsUpper(c)
  THEN LowerChars[CHOOSE i \in 1..Len(UpperChars) : UpperChars[i] = c]
  ELSE c

\* base::ToLowerASCII(s)
ToLowerASCII(s) == [i \in 1..Len(s) |-> ToLowerChar(s[i])]

\* haystack.find(needle) != std::string::npos
Contains(haystack, needle) ==
  \E i \in 0..(Len(haystack) - Len(needle)) :
    SubSeq(haystack, i + 1, i + Len(needle)) = needle

-----------------------------------------------------------------------------
(* PrivacyFilter *)

kBankingDomains ==
  <<<<"b", "a", "n", "k">>,
    <<"c", "h", "a", "s", "e">>,
    <<"w", "e", "l", "l", "s", "f", "a", "r", "g", "o">>,
    <<"b", "a", "n", "k", "o", "f", "a", "m", "e", "r", "i", "c", "a">>,
    <<"c", "i", "t", "i">>,
    <<"c", "a", "p", "i", "t", "a", "l", "o", "n", "e">>,
    <<"u", "s", "b", "a", "n", "k">>,
    <<"p", "n", "c">>,
    <<"a", "l", "l", "y">>,
    <<"s", "c", "h", "w", "a", "b">>,
    <<"f", "i", "d", "e", "l", "i", "t", "y">>,
    <<"v", "a", "n", "g", "u", "a", "r", "d">>,
    <<"e", "t", "r", "a", "d", "e">>,
    <<"t", "d", "a", "m", "e", "r", "i", "t", "r", "a", "d", "e">>,
    <<"r", "o", "b", "i", "n", "h", "o", "o", "d">>,
    <<"c", "o", "i", "n", "b", "a", "s", "e">>,
    <<"k", "r", "a", "k", "e", "n">>,
    <<"b", "i", "n", "a", "n", "c", "e">>,
    <<"p", "a", "y", "p", "a", "l">>,
    <<"v", "e", "n", "m", "o">>,
    <<"z", "e", "l", "l", "e">>,
    <<"s", "t", "r", "i", "p", "e">>,
    <<"s", "q", "u", "a", "r", "e">>>>

kHealthcareDomains ==
  <<<<"h", "e", "a", "l", "t", "h">>,
    <<"m", "e", "d", "i", "c", "a", "l">>,
    <<"h", "o", "s", "p", "i", "t", "a", "l">>,
    <<"c", "l", "i", "n", "i", "c">>,
    <<"d", "o", "c", "t", "o", "r">>,
    <<"p", "a", "t", "i", "e", "n", "t">>,
    <<"p", "h", "a", "r", "m", "a", "c", "y">>,
    <<"c", "v", "s">>,
    <<"w", "a", "l", "g", "r", "e", "e", "n", "s">>,
    <<"m", "e", "d", "i", "c", "a", "r", "e">>,
    <<"m", "e", "d", "i", "c", "a", "i", "d">>,
    <<"a", "n", "t", "h", "e", "m">>,
    <<"b", "l", "u", "e", "c", "r", "o", "s", "s">>,
    <<"a", "e", "t", "n", "a">>,
    <<"c", "i", "g", "n", "a">>,
    <<"u", "n", "i", "t", "e", "d", "h", "e", "a", "l", "t", "h">>,
    <<"k", "a", "i", "s", "e", "r">>,
    <<"w", "e", "b", "m", "d">>,
    <<"m", "a", "y", "o", "c", "l", "i", "n", "i", "c">>,
    <<"c", "l", "e", "v", "e", "l", "a", "n", "d", "c", "l", "i", "n", "i", "c">>,
    <<"z", "o", "c", "d", "o", "c">>>>

kSocialMediaDomains ==
  <<<<"f", "a", "c", "e", "b", "o", "o", "k">>,
    <<"i", "n", "s", "t", "a", "g", "r", "a", "m">>,
    <<"t", "w", "i", "t", "t", "e", "r">>,
    <<"x", ".", "c", "o", "m">>,
    <<"t", "i", "k", "t", "o", "k">>,
    <<"s", "n", "a", "p", "c", "h", "a", "t">>,
    <<"l", "i", "n", "k", "e", "d", "i", "n">>,
    <<"r", "e", "d", "d", "i", "t">>,
    <<"p", "i", "n", "t", "e", "r", "e", "s", "t">>,
    <<"t", "u", "m", "b", "l", "r">>,
    <<"d", "i", "s", "c", "o", "r", "d">>,
    <<"t", "e", "l", "e", "g", "r", "a", "m">>,
    <<"w", "h", "a", "t", "s", "a", "p", "p">>,
    <<"m", "e", "s", "s", "e", "n", "g", "e", "r">>,
    <<"t", "h", "r", "e", "a", "d", "s">>>>

\* The loop shared by IsBankingSite, IsHealthcareSite and IsSocialMediaSite
MatchesAny(domain, patterns) ==
  LET lower_domain == ToLowerASCII(domain)
  IN  \E i \in 1..Len(patterns) : Contains(lower_domain, patterns[i])

IsBankingSite(domain) == MatchesAny(domain, kBankingDomains)
IsHealthcareSite(domain) == MatchesAny(domain, kHealthcareDomains)
IsSocialMediaSite(domain) == MatchesAny(domain, kSocialMediaDomains)

\* The category flags of a filter, as a record
Flags(banking, healthcare, social) ==
  [banking |-> banking, healthcare |-> healthcare, social |-> social]

\* IsCategoryExcluded with every category taken as on
IsCategoryExcludedAllOn(flags, domain) ==
  \/ IsBankingSite(domain)
  \/ IsHealthcareSite(domain)
  \/ IsSocialMediaSite(domain)

\* IsCategoryExcluded(domain)
IsCategoryExcluded(flags, domain) ==
  \/ flags.banking /\ IsBankingSite(domain)
  \/ flags.healthcare /\ IsHealthcareSite(domain)
  \/ flags.social /\ IsSocialMediaSite(domain)

\* IsUserExcluded with the suffix test made without the "."
IsUserExcludedNoDot(excluded, domain) ==
  \/ domain \in excluded
  \/ \E x \in excluded :
       /\ Len(domain) > Len(x)
       /\ SubSeq(domain, Len(domain) - Len(x) + 1, Len(domain)) = x

\* IsUserExcluded(domain): an exact match, or the domain ends with "." + an
\* excluded domain
IsUserExcluded(excluded, domain) ==
  \/ domain \in excluded
  \/ \E x \in excluded :
       /\ Len(domain) > Len(x)
       /\ LET suffix == <<".">> \o x
          IN  SubSeq(domain, Len(domain) - Len(suffix) + 1, Len(domain)) = suffix

\* AddExcludedDomain inserting the domain as given
AddExcludedDomainRaw(excluded, domain) == excluded \cup {domain}

\* AddExcludedDomain(domain): the set afterwards
AddExcludedDomain(excluded, domain) == excluded \cup {ToLowerASCII(domain)}

\* RemoveExcludedDomain(domain): the set afterwards
RemoveExcludedDomain(excluded, domain) == excluded \ {ToLowerASCII(domain)}

\* IsExcluded(url)
IsExcluded(excluded, flags, url) ==
  IF ~url.valid THEN TRUE
  ELSE \/ IsUserExcluded(excluded, url.host)
       \/ IsCategoryExcluded(flags, url.host)

\* SanitizeElementSelector: the leading run of alphabetic characters
RECURSIVE LeadingAlpha(_)
LeadingAlpha(selector) ==
  IF selector = <<>> \/ ~IsAlpha(Head(selector)) THEN <<>>
  ELSE <<Head(selector)>> \o LeadingAlpha(Tail(selector))

\* SanitizeElementSelector(selector)
SanitizeElementSelector(selector) ==
  LET result == LeadingAlpha(selector)
  IN  IF result = <<>> THEN <<"u", "n", "k", "n", "o", "w", "n">>
      ELSE ToLowerASCII(result)

-----------------------------------------------------------------------------
(* PrivacyFilter::SanitizeSearchQuery.  A word of a query carries its text  *)
(* and its shape, which decides the kPiiPatterns entries that match it.     *)

Word(text, shape) == [text |-> text, shape |-> shape]

\* "[REDACTED]", as written by std::regex_replace or typed by the user
Redacted == Word("[REDACTED]", "marker")

\* kPiiPatterns, in order
kPiiPatterns == <<"email", "phone", "ssn", "card", "zip">>

\* Whether the regular expression matches the word:
\*   email  \b[A-Za-z0-9._%+-]+@[A-Za-z0-9.-]+\.[A-Z|a-z]{2,}\b
\*   phone  \b\d{3}[-.]?\d{3}[-.]?\d{4}\b
\*   ssn    \b\d{3}[-]?\d{2}[-]?\d{4}\b     (also matches ddddd-dddd)
\*   card   \b\d{16}\b
\*   zip    \b\d{5}(-\d{4})?\b
PatternMatches(pattern, word) ==
  CASE pattern = "email" -> word.shape = "email"
    [] pattern = "phone" -> word.shape = "ddd-ddd-dddd"
    [] pattern = "ssn"   -> word.shape \in {"ddd-dd-dddd", "ddddd-dddd"}
    [] pattern = "card"  -> word.shape = "d16"
    [] pattern = "zip"   -> word.shape \in {"ddddd", "ddddd-dddd"}

\* std::regex_replace(result, re, "[REDACTED]")
RegexReplace(result, pattern) ==
  [i \in 1..Len(result) |->
     IF PatternMatches(pattern, result[i]) THEN Redacted ELSE result[i]]

RECURSIVE ApplyPatterns(_, _)
ApplyPatterns(result, patterns) ==
  IF patterns = <<>> THEN result
  ELSE ApplyPatterns(RegexReplace(result, Head(patterns)), Tail(patterns))

\* The while loop counting "[REDACTED]" in the result
RedactedCount(result) == Cardinality({i \in 1..Len(result) : result[i] = Redacted})

\* SanitizeSearchQuery giving up at two markers already
SanitizeSearchQueryAtTwo(query) ==
  LET result == ApplyPatterns(query, kPiiPatterns)
  IN  IF RedactedCount(result) >= 2 THEN <<>> ELSE result

\* SanitizeSearchQuery(query)
SanitizeSearchQuery(query) ==
  LET result == ApplyPatterns(query, kPiiPatterns)
  IN  IF RedactedCount(result) > 2 THEN <<>> ELSE result

-----------------------------------------------------------------------------
(* BrowsingDataCollector *)

\* A GURL: is_valid(), host() (lower case, as GURL canonicalizes it), spec()
Url(valid, host, spec) == [valid |-> valid, host |-> host, spec |-> spec]

\* content::WebContents*: nullptr, or a tab of a browser context
NullContents == [null |-> TRUE, off_the_record |-> FALSE]
WebContents(private) == [null |-> FALSE, off_the_record |-> private]

\* HashUrl(url): the hex SHA-1 digest of url.spec()
HashUrl(url) == <<"sha1", url.spec>>

\* IsIncognito(contents)
IsIncognito(contents) ==
  IF contents.null THEN FALSE ELSE contents.off_the_record

\* The collector with the filter and the store it owns, as one value.
\* `stored` lists the events the call handed to EncryptedStore::StoreEvent.
Self ==
  [events |-> events_, depth |-> current_scroll_depth_,
   enabled |-> collection_enabled_, excluded |-> user_excluded_domains_,
   flags |-> Flags(exclude_banking_, exclude_healthcare_, exclude_social_media_),
   stored |-> <<>>]

\* local_store_->StoreEvent(event)
Store(c, event) ==
  [c EXCEPT !.events = PushAndTrim(c.events, event), !.stored = <<event>>]

\* OnPageLoad(url, contents)
OnPageLoadEffect(c, url, contents, ts) ==
  IF IsIncognito(contents) THEN c
  ELSE IF ~c.enabled THEN c
  ELSE IF IsExcluded(c.excluded, c.flags, url) THEN c
  ELSE [Store(c, NewEvent("PAGE_LOAD", HashUrl(url), ts)) EXCEPT !.depth = 0]

\* OnPageUnload(url, time_on_page)
OnPageUnloadEffect(c, url, time_on_page, ts) ==
  IF ~c.enabled THEN c
  ELSE Store(c, [NewEvent("PAGE_UNLOAD", HashUrl(url), ts) EXCEPT
                   !.duration = time_on_page, !.scroll_depth = c.depth])

\* OnScroll without the collection_enabled_ test
OnScrollEffectUngated(c, depth_percentage) ==
  IF depth_percentage > c.depth THEN [c EXCEPT !.depth = depth_percentage] ELSE c

\* OnScroll keeping the last value instead of the deepest
OnScrollEffectLast(c, depth_percentage) ==
  IF ~c.enabled THEN c ELSE [c EXCEPT !.depth = depth_percentage]

\* OnScroll(depth_percentage)
OnScrollEffect(c, depth_percentage) ==
  IF ~c.enabled THEN c
  ELSE IF depth_percentage > c.depth THEN [c EXCEPT !.depth = depth_percentage]
  ELSE c

\* OnClick recording the running scroll depth with the click
OnClickEffectWithDepth(c, element_selector, ts) ==
  IF ~c.enabled THEN c
  ELSE Store(c, [DefaultEvent("CLICK") EXCEPT
                   !.timestamp = ts,
                   !.scroll_depth = c.depth,
                   !.element_type = SanitizeElementSelector(element_selector)])

\* OnClick(element_selector)
OnClickEffect(c, element_selector, ts) ==
  IF ~c.enabled THEN c
  ELSE Store(c, [DefaultEvent("CLICK") EXCEPT
                   !.timestamp = ts,
                   !.element_type = SanitizeElementSelector(element_selector)])

\* OnSearchQuery storing the query as typed
OnSearchQueryEffectRaw(c, query, ts) ==
  IF ~c.enabled THEN c
  ELSE IF SanitizeSearchQuery(query) = <<>> THEN c
  ELSE Store(c, [DefaultEvent("SEARCH_QUERY") EXCEPT
                   !.timestamp = ts, !.search_query = query])

\* OnSearchQuery(query)
OnSearchQueryEffect(c, query, ts) ==
  IF ~c.enabled THEN c
  ELSE LET sanitized == SanitizeSearchQuery(query)
       IN  IF sanitized = <<>> THEN c
           ELSE Store(c, [DefaultEvent("SEARCH_QUERY") EXCEPT
                            !.timestamp = ts, !.search_query = sanitized])

\* The veto loop of OnFormSubmit testing for "password" only
HasSensitiveFieldPasswordOnly(field_types) ==
  \E i \in 1..Len(field_types) : field_types[i] = "password"

\* The veto loop of OnFormSubmit
HasSensitiveField(field_types) ==
  \E i \in 1..Len(field_types) :
    field_types[i] = "password" \/ field_types[i] = "credit-card"

\* OnFormSubmit(field_types)
OnFormSubmitEffect(c, field_types, ts) ==
  IF ~c.enabled THEN c
  ELSE IF HasSensitiveField(field_types) THEN c
  ELSE Store(c, [DefaultEvent("FORM_SUBMIT") EXCEPT !.timestamp = ts])

\* ClearAllData()
ClearAllDataEffect(c) == [c EXCEPT !.events = <<>>, !.depth = 0]

-----------------------------------------------------------------------------
(* Inputs *)

UrlNews == Url(TRUE, <<"n", "e", "w", "s", ".", "o", "r", "g">>, "https://news.org/")
UrlBank == Url(TRUE, <<"m", "y", "b", "a", "n", "k", ".", "c", "o", "m">>, "https://mybank.com/")
UrlInvalid == Url(FALSE, <<>>, "")

DomainInputs == {<<"N", "e", "w", "s", ".", "o", "r", "g">>}

DurationInputs == {2500}
SelectorInputs == {<<"B", "u", "t", "t", "o", "n", "#", "b", "u", "y">>}

Shoes == Word("shoes", "plain")
Phone == Word("555-123-4567", "ddd-ddd-dddd")

KeyInputs == {"", "short", "0123456789abcdef"}

\* The values an unassigned `type` member is given
UninitializedTypes == {"PAGE_LOAD", "SEARCH_QUERY"}

ClickA == [DefaultEvent("CLICK") EXCEPT !.timestamp = 3000, !.element_type = <<"a">>]
LoadNews == NewEvent("PAGE_LOAD", HashUrl(UrlNews), 1500)

\* Events handed to StoreEvent directly
EventInputs == {LoadNews, ClickA}

\* Record lists handed to ImportEncrypted: empty, a non-dict item before a
\* full record, a record without "type" after a full record
ListInputs ==
  {<<>>,
   <<NonDict, EventDict(ClickA)>>,
   <<EventDict(LoadNews), Dict([url_hash |-> HashUrl(UrlBank)])>>}

BlobInputs ==
  {<<>>, <<Prefix>>, <<Garbage>>, <<Prefix, JsonNonList>>}
  \cup {JSONWrite(l) : l \in ListInputs}
  \cup {<<Prefix>> \o JSONWrite(l) : l \in ListInputs}
  \cup {<<Prefix, Prefix>> \o JSONWrite(<<>>)}

-----------------------------------------------------------------------------
(* The state after construction: EncryptedStore(), PrivacyFilter() with the *)
(* defaults of privacy_filter.h, BrowsingDataCollector(), IntentAnalyzer()  *)
(* with the defaults of intent_analyzer.h                                   *)

Init ==
  /\ events_ = <<>>
  /\ encryption_key_ = ""
  /\ current_scroll_depth_ = 0
  /\ collection_enabled_ = TRUE
  /\ user_excluded_domains_ = {}
  /\ exclude_banking_ = TRUE
  /\ exclude_healthcare_ = TRUE
  /\ exclude_social_media_ = FALSE
  /\ now = StartMicros
  /\ ctype_alpha = {}
  /\ lastCall = [op |-> "construct"]
  /\ fifoBase = <<>>
  /\ fifoNew = <<>>
  /\ scrollBase = 0
  /\ scrollRun = <<>>
  /\ peakSinceLoad = 0
  /\ exported = [blob |-> <<>>, from |-> <<>>, key |-> ""]
  /\ model_handle_ = 0
  /\ is_ready_ = FALSE
  /\ cached_intents_ = <<>>
  /\ min_confidence_ = kDefaultMinConfidence
  /\ pc = [t \in Threads |-> "idle"]
  /\ observed = [op |-> "none"]
  /\ pushLog = <<>>
  /\ loaded = 0
  /\ unloaded = 0
  /\ destroyed = FALSE

-----------------------------------------------------------------------------
(* History *)

Hooks == {"OnPageLoad", "OnPageUnload", "OnScroll", "OnClick", "OnSearchQuery",
          "OnFormSubmit"}

Max(a, b) == IF a > b THEN a ELSE b

\* stored: the events the call handed to StoreEvent
FifoHistory(stored) ==
  IF stored # <<>> /\ fifoBase # <<>> /\ Len(fifoNew) < kMaxCachedEvents
  THEN fifoBase' = fifoBase /\ fifoNew' = fifoNew \o stored
  ELSE IF stored = <<>> /\ events_' = events_
  THEN UNCHANGED fifoVars
  ELSE /\ fifoNew' = <<>>
       /\ fifoBase' = IF Len(events_') = kMaxCachedEvents THEN events_' ELSE <<>>

ScrollHistory(op, depth_percentage) ==
  /\ IF op = "OnScroll"
     THEN IF lastCall.op = "OnScroll" /\ Len(scrollRun) < MaxRun
          THEN scrollRun' = Append(scrollRun, depth_percentage)
               /\ scrollBase' = scrollBase
          ELSE scrollRun' = <<depth_percentage>>
               /\ scrollBase' = current_scroll_depth_
     ELSE IF op = "OnPageUnload"
     THEN UNCHANGED <<scrollBase, scrollRun>>
     ELSE scrollRun' = <<>> /\ scrollBase' = current_scroll_depth_'
  /\ peakSinceLoad' =
       IF op \in {"OnPageLoad", "ClearAllData"} THEN 0
       ELSE IF op = "OnScroll" /\ collection_enabled_
       THEN Max(peakSinceLoad, depth_percentage)
       ELSE peakSinceLoad

\* What a call of the store leaves behind
StoreCalled(call, stored) ==
  /\ lastCall' = call
  /\ FifoHistory(stored)
  /\ UNCHANGED <<scrollVars, callerVars, analyzerVars, threadVars, runtimeVars>>

\* What a call of the collector leaves behind
Called(call, depth_percentage) ==
  /\ lastCall' = call
  /\ ScrollHistory(call.op, depth_percentage)
  /\ UNCHANGED <<fifoVars, callerVars, analyzerVars, threadVars, runtimeVars>>

-----------------------------------------------------------------------------
(* Actions of the EncryptedStore, called directly *)

Initialize(key) ==
  /\ encryption_key_' = IF KeyAccepted(key) THEN key ELSE encryption_key_
  /\ UNCHANGED <<events_, collectorVars, filterVars, envVars>>
  /\ StoreCalled([op |-> "Initialize", key |-> key, ret |-> KeyAccepted(key)], <<>>)

StoreEvent(event) ==
  /\ events_' = PushAndTrim(events_, event)
  /\ UNCHANGED <<encryption_key_, collectorVars, filterVars, envVars>>
  /\ StoreCalled([op |-> "StoreEvent", event |-> event], <<event>>)

ClearAll ==
  /\ events_' = <<>>
  /\ UNCHANGED <<encryption_key_, collectorVars, filterVars, envVars>>
  /\ StoreCalled([op |-> "ClearAll"], <<>>)

ImportEncrypted(data, u) ==
  /\ Len(ImportResult(events_, encryption_key_, data, u)) <= MaxEvents
  /\ events_' = ImportResult(events_, encryption_key_, data, u)
  /\ UNCHANGED <<encryption_key_, collectorVars, filterVars, envVars>>
  /\ StoreCalled([op |-> "ImportEncrypted", data |-> data,
             ret |-> ImportAccepted(encryption_key_, data)], <<>>)

StoreNext ==
  \/ \E key \in KeyInputs : Initialize(key)
  \/ \E event \in EventInputs : StoreEvent(event)
  \/ ClearAll
  \/ \E data \in BlobInputs, u \in UninitializedTypes : ImportEncrypted(data, u)

SpecStore == Init /\ [][StoreNext]_vars

\* ExportEncrypted(): const; the caller keeps the returned blob
ExportEncrypted ==
  /\ exported' = [blob |-> ExportResult(events_, encryption_key_),
                  from |-> events_, key |-> encryption_key_]
  /\ lastCall' = [op |-> "ExportEncrypted"]
  /\ UNCHANGED <<storeVars, collectorVars, filterVars, envVars, fifoVars,
                 scrollVars, analyzerVars, threadVars, runtimeVars>>

\* Events handed to StoreEvent before an export: every exported member set
UnloadDeep ==
  [NewEvent("PAGE_UNLOAD", HashUrl(UrlNews), 2200) EXCEPT
     !.duration = 2500, !.scroll_depth = 3, !.element_type = <<"a">>,
     !.referrer_hash = HashUrl(UrlBank)]
QueryShoes ==
  [DefaultEvent("SEARCH_QUERY") EXCEPT
     !.timestamp = 1500, !.search_query = <<Shoes, Redacted>>]

RoundTripEvents == {UnloadDeep, QueryShoes}

\* Export from a store and import of the exported blob
RoundTripNext ==
  \/ \E key \in KeyInputs : Initialize(key)
  \/ \E event \in RoundTripEvents : StoreEvent(event)
  \/ ClearAll
  \/ ExportEncrypted
  \/ \E u \in UninitializedTypes : ImportEncrypted(exported.blob, u)

SpecRoundTrip == Init /\ [][RoundTripNext]_vars

-----------------------------------------------------------------------------
(* Actions of the BrowsingDataCollector.  `private` says whether the hook   *)
(* is delivered from an off-the-record browser context; only OnPageLoad is  *)
(* handed the WebContents that tells.                                       *)

Apply(r) ==
  /\ events_' = r.events
  /\ current_scroll_depth_' = r.depth
  /\ UNCHANGED <<encryption_key_, collection_enabled_, filterVars, envVars>>

OnPageLoad(url, contents, private) ==
  LET r == OnPageLoadEffect(Self, url, contents, now)
  IN  /\ Apply(r)
      /\ Called([op |-> "OnPageLoad", private |-> private, url |-> url,
                 contents |-> contents], 0)

OnPageUnload(url, time_on_page, private) ==
  LET r == OnPageUnloadEffect(Self, url, time_on_page, now)
  IN  /\ Apply(r)
      /\ Called([op |-> "OnPageUnload", private |-> private, url |-> url], 0)

OnScroll(depth_percentage, private) ==
  LET r == OnScrollEffect(Self, depth_percentage)
  IN  /\ Apply(r)
      /\ Called([op |-> "OnScroll", private |-> private, depth |-> depth_percentage],
                depth_percentage)

OnClick(element_selector, private) ==
  LET r == OnClickEffect(Self, element_selector, now)
  IN  /\ Apply(r)
      /\ Called([op |-> "OnClick", private |-> private, selector |-> element_selector],
                0)

OnSearchQuery(query, private) ==
  LET r == OnSearchQueryEffect(Self, query, now)
  IN  /\ Apply(r)
      /\ Called([op |-> "OnSearchQuery", private |-> private, query |-> query], 0)

OnFormSubmit(field_types, private) ==
  LET r == OnFormSubmitEffect(Self, field_types, now)
  IN  /\ Apply(r)
      /\ Called([op |-> "OnFormSubmit", private |-> private, field_types |-> field_types],
                0)

SetCollectionEnabled(enabled) ==
  /\ collection_enabled_' = enabled
  /\ UNCHANGED <<storeVars, current_scroll_depth_, filterVars, envVars>>
  /\ Called([op |-> "SetCollectionEnabled", enabled |-> enabled,
             was |-> collection_enabled_], 0)

AddExcludedSite(domain) ==
  /\ user_excluded_domains_' = AddExcludedDomain(user_excluded_domains_, domain)
  /\ UNCHANGED <<storeVars, collectorVars, exclude_banking_, exclude_healthcare_,
                 exclude_social_media_, envVars>>
  /\ Called([op |-> "AddExcludedSite", domain |-> domain,
             was |-> ToLowerASCII(domain) \in user_excluded_domains_], 0)

RemoveExcludedSite(domain) ==
  /\ user_excluded_domains_' = RemoveExcludedDomain(user_excluded_domains_, domain)
  /\ UNCHANGED <<storeVars, collectorVars, exclude_banking_, exclude_healthcare_,
                 exclude_social_media_, envVars>>
  /\ Called([op |-> "RemoveExcludedSite", domain |-> domain,
             was |-> ToLowerASCII(domain) \in user_excluded_domains_], 0)

\* IsExcludedSite(url): const
IsExcludedSite(url) ==
  /\ UNCHANGED <<storeVars, collectorVars, filterVars, envVars>>
  /\ Called([op |-> "IsExcludedSite", url |-> url,
             ret |-> IsExcluded(user_excluded_domains_,
                                Flags(exclude_banking_, exclude_healthcare_,
                                      exclude_social_media_), url)], 0)

\* PrivacyFilter::SanitizeSearchQuery(query), called directly: const
SanitizeSearchQueryCall(query) ==
  /\ UNCHANGED <<storeVars, collectorVars, filterVars, envVars>>
  /\ Called([op |-> "SanitizeSearchQuery", query |-> query,
             ret |-> SanitizeSearchQuery(query)], 0)

\* PrivacyFilter::SetBankingExcluded(excluded)
SetBankingExcluded(excluded) ==
  /\ exclude_banking_' = excluded
  /\ UNCHANGED <<storeVars, collectorVars, user_excluded_domains_,
                 exclude_healthcare_, exclude_social_media_, envVars>>
  /\ Called([op |-> "SetBankingExcluded", excluded |-> excluded], 0)

\* PrivacyFilter::SetHealthcareExcluded(excluded)
SetHealthcareExcluded(excluded) ==
  /\ exclude_healthcare_' = excluded
  /\ UNCHANGED <<storeVars, collectorVars, user_excluded_domains_,
                 exclude_banking_, exclude_social_media_, envVars>>
  /\ Called([op |-> "SetHealthcareExcluded", excluded |-> excluded], 0)

\* PrivacyFilter::SetSocialMediaExcluded(excluded)
SetSocialMediaExcluded(excluded) ==
  /\ exclude_social_media_' = excluded
  /\ UNCHANGED <<storeVars, collectorVars, user_excluded_domains_,
                 exclude_banking_, exclude_healthcare_, envVars>>
  /\ Called([op |-> "SetSocialMediaExcluded", excluded |-> excluded], 0)

ClearAllData ==
  LET r == ClearAllDataEffect(Self)
  IN  /\ Apply(r)
      /\ Called([op |-> "ClearAllData"], 0)

\* The host clock advances between calls
Tick ==
  /\ now < StartMicros + MaxTicks * TickMicros
  /\ now' = now + TickMicros
  /\ UNCHANGED ctype_alpha
  /\ UNCHANGED <<storeVars, collectorVars, filterVars, callVars, fifoVars,
                 scrollVars, callerVars, analyzerVars, threadVars,
                 runtimeVars>>

\* The WebContents a page-load hook may be handed: the tab of its context,
\* or nullptr from a context that is not off the record
ContentsOf(private) ==
  IF private THEN {WebContents(TRUE)} ELSE {NullContents, WebContents(FALSE)}

\* Every hook behind its gates: the six hooks, the kill switch and the user's
\* exclusion list
GatesNext ==
  \/ \E url \in {UrlNews, UrlBank, UrlInvalid}, private \in BOOLEAN :
       \E contents \in ContentsOf(private) : OnPageLoad(url, contents, private)
  \/ \E url \in {UrlNews, UrlBank}, d \in DurationInputs, private \in BOOLEAN :
       OnPageUnload(url, d, private)
  \/ \E private \in BOOLEAN : OnScroll(3, private)
  \/ \E sel \in SelectorInputs, private \in BOOLEAN : OnClick(sel, private)
  \/ \E private \in BOOLEAN : OnSearchQuery(<<Shoes, Phone>>, private)
  \/ \E private \in BOOLEAN : OnFormSubmit(<<"text", "email">>, private)
  \/ \E enabled \in BOOLEAN : SetCollectionEnabled(enabled)
  \/ \E domain \in DomainInputs : AddExcludedSite(domain)
  \/ \E domain \in DomainInputs : RemoveExcludedSite(domain)
  \/ ClearAllData

SpecGates == Init /\ [][GatesNext]_vars

\* Scroll depths, in tenths: below the range, inside it, above it
DepthInputs == {-1, 2, 3, 12}

\* Page visits: loads, scrolls and unloads, with the kill switch
ScrollNext ==
  \/ OnPageLoad(UrlNews, WebContents(FALSE), FALSE)
  \/ \E depth \in DepthInputs : OnScroll(depth, FALSE)
  \/ \E d \in DurationInputs : OnPageUnload(UrlNews, d, FALSE)
  \/ \E enabled \in BOOLEAN : SetCollectionEnabled(enabled)
  \/ ClearAllData

SpecScroll == Init /\ [][ScrollNext]_vars

FieldTypeInputs ==
  {<<"text", "password">>, <<"text", "email">>, <<"credit-card">>, <<>>}

QueryInputs ==
  {<<>>,
   <<Shoes>>,
   <<Shoes, Phone>>,
   <<Redacted, Word("90210", "ddddd"), Word("12345-6789", "ddddd-dddd")>>,
   <<Word("a@b.com", "email"), Word("c@d.org", "email"), Word("e@f.net", "email")>>}

\* Search queries and form submissions, with the kill switch and the clock
FormsNext ==
  \/ \E query \in QueryInputs, private \in BOOLEAN : OnSearchQuery(query, private)
  \/ \E types \in FieldTypeInputs, private \in BOOLEAN : OnFormSubmit(types, private)
  \/ \E enabled \in BOOLEAN : SetCollectionEnabled(enabled)
  \/ ClearAllData
  \/ Tick

SpecForms == Init /\ [][FormsNext]_vars

\* URLs put to the filter: an excluded domain's own host, a subdomain of it,
\* a host that ends with it without the dot, hosts with category keywords
UrlSubNews == Url(TRUE, <<"m", ".", "n", "e", "w", "s", ".", "o", "r", "g">>, "https://m.news.org/")
UrlBadNews == Url(TRUE, <<"b", "a", "d", "n", "e", "w", "s", ".", "o", "r", "g">>, "https://badnews.org/")
UrlClinic == Url(TRUE, <<"c", "i", "t", "y", "c", "l", "i", "n", "i", "c", ".", "n", "e", "t">>, "https://cityclinic.net/")
UrlReddit == Url(TRUE, <<"r", "e", "d", "d", "i", "t", ".", "c", "o", "m">>, "https://reddit.com/")

FilterUrls ==
  {UrlNews, UrlSubNews, UrlBadNews, UrlBank, UrlClinic, UrlReddit, UrlInvalid}

\* Domains the user excludes, in several spellings
FilterDomains ==
  {<<"n", "e", "w", "s", ".", "o", "r", "g">>,
   <<"N", "e", "w", "s", ".", "o", "r", "g">>,
   <<"o", "r", "g">>}

ThreeEmails ==
  <<Word("a@b.com", "email"), Word("c@d.org", "email"), Word("e@f.net", "email")>>

\* Queries put to the sanitizer directly: those of the search hook, and
\* queries with two matches, with a card number, with a social security number
SanitizeInputs ==
  QueryInputs
  \cup {<<Word("a@b.com", "email"), Shoes, Word("c@d.org", "email")>>,
        <<Word("4111111111111111", "d16"), Shoes>>,
        <<Shoes, Word("123-45-6789", "ddd-dd-dddd"), Phone>>}

\* The exclusion list, the category toggles and the sanitizer
FilterNext ==
  \/ \E query \in SanitizeInputs : SanitizeSearchQueryCall(query)
  \/ \E domain \in FilterDomains : AddExcludedSite(domain)
  \/ \E domain \in FilterDomains : RemoveExcludedSite(domain)
  \/ \E url \in FilterUrls : IsExcludedSite(url)
  \/ \E excluded \in BOOLEAN : SetBankingExcluded(excluded)
  \/ \E excluded \in BOOLEAN : SetHealthcareExcluded(excluded)
  \/ \E excluded \in BOOLEAN : SetSocialMediaExcluded(excluded)

SpecFilter == Init /\ [][FilterNext]_vars

-----------------------------------------------------------------------------
(* IntentAnalyzer and QwenClient.  A handle is 0 (nullptr) or 1 (the value  *)
(* LoadModel returns).  A JSON field value is a string or a number.         *)

Str(s) == [str |-> s]
Num(n) == [num |-> n]

\* base::Value::Dict::FindString(key): the string, or null
FindString(dict, key) == key \in DOMAIN dict /\ "str" \in DOMAIN dict[key]

\* base::Value::Dict::FindDouble(key): the number, or nullopt
FindDouble(dict, key) == key \in DOMAIN dict /\ "num" \in DOMAIN dict[key]

\* enum class IntentType
IntentTypes == {"PURCHASE_INTENT", "RESEARCH_INTENT", "COMPARISON_INTENT",
                "ENGAGEMENT_INTENT", "NAVIGATION_INTENT"}

\* ParseResponse lines 185-195: the names compared with *type
ParseType(type) ==
  IF type = "PURCHASE_INTENT" THEN "PURCHASE_INTENT"
  ELSE IF type = "RESEARCH_INTENT" THEN "RESEARCH_INTENT"
  ELSE IF type = "COMPARISON_INTENT" THEN "COMPARISON_INTENT"
  ELSE IF type = "ENGAGEMENT_INTENT" THEN "ENGAGEMENT_INTENT"
  ELSE "NAVIGATION_INTENT"

\* ParseResponse lines 202-208: the level of a score in hundredths
ParseConfidence(confidence) ==
  IF confidence < 40 THEN "LOW"
  ELSE IF confidence < 70 THEN "MEDIUM"
  ELSE "HIGH"

\* ParseResponse lines 177-217: the signal built from one dict.  `IntentSignal
\* signal;` leaves type, confidence and confidence_score without a value
\* (intent_analyzer.h gives them no initializer); u is what they hold when
\* the dict does not assign them.  ts is base::Time::Now().
ParsedSignal(dict, u, ts) ==
  [type |-> IF FindString(dict, "type") THEN ParseType(dict.type.str)
            ELSE u.type,
   confidence |-> IF FindDouble(dict, "confidence")
                  THEN ParseConfidence(dict.confidence.num) ELSE u.confidence,
   confidence_score |-> IF FindDouble(dict, "confidence")
                        THEN dict.confidence.num ELSE u.confidence_score,
   category |-> IF FindString(dict, "category") THEN dict.category.str ELSE "",
   detected_at |-> ts,
   event_count |-> 0]

\* ParseResponse lines 174-218: the loop over the list, non-dict items
\* skipped; us[i] is the unassigned value of the iteration over item i
RECURSIVE ParseItems(_, _, _, _)
ParseItems(items, i, us, ts) ==
  IF i > Len(items) THEN <<>>
  ELSE (IF items[i].isdict
        THEN <<ParsedSignal(items[i].fields, us[i], ts)>> ELSE <<>>)
       \o ParseItems(items, i + 1, us, ts)

\* IntentAnalyzer::ParseResponse(response)
ParseResponse(response, us, ts) ==
  LET parsed == JSONRead(response)
  IN  IF parsed.seg # "list" THEN <<>>
      ELSE ParseItems(parsed.items, 1, us, ts)

\* The text "[]"
EmptyListText == <<JsonList(<<>>)>>

\* The model file present on the host
ModelFile == "/models/qwen.gguf"

\* base::PathExists(base::FilePath(model_path))
PathExists(model_path) == model_path = ModelFile

\* QwenClient::LoadModel(model_path)
LoadModel(model_path) == IF ~PathExists(model_path) THEN 0 ELSE 1

\* QwenClient::Infer(handle, prompt); generated is the text the runtime
\* produces for the prompt (the sample response in the placeholder build)
Infer(handle, generated) == IF handle = 0 THEN EmptyListText ELSE generated

\* IntentAnalyzer::RunInference(prompt)
RunInference(handle, generated) ==
  IF handle = 0 THEN EmptyListText ELSE Infer(handle, generated)

\* IntentAnalyzer::IsReady()
IsReady(ready, handle) == ready /\ handle # 0

\* AnalyzeEvents lines 61-66 keeping only the signals above the threshold
FilterByConfidenceStrict(signals, min_confidence) ==
  SelectSeq(signals, LAMBDA signal : signal.confidence_score > min_confidence)

\* AnalyzeEvents lines 61-66: the signals at or above the threshold, in order
FilterByConfidence(signals, min_confidence) ==
  SelectSeq(signals, LAMBDA signal : signal.confidence_score >= min_confidence)

\* AnalyzeEvents without the test for an empty list
AnalyzeEventsEffectNoEmptyCheck(ready, handle, cached, min, events, generated, us, ts) ==
  IF ~IsReady(ready, handle)
  THEN [cached |-> cached, ret |-> <<>>, inferred |-> FALSE,
        response |-> <<>>, signals |-> <<>>]
  ELSE LET response == RunInference(handle, generated)
           signals == ParseResponse(response, us, ts)
           filtered == FilterByConfidence(signals, min)
       IN  [cached |-> filtered, ret |-> filtered, inferred |-> TRUE,
            response |-> response, signals |-> signals]

\* IntentAnalyzer::AnalyzeEvents(events): the cache afterwards, the value
\* returned, whether RunInference was called, and the response and the
\* parsed signals when it was
AnalyzeEventsEffect(ready, handle, cached, min, events, generated, us, ts) ==
  IF ~IsReady(ready, handle)
  THEN [cached |-> cached, ret |-> <<>>, inferred |-> FALSE,
        response |-> <<>>, signals |-> <<>>]
  ELSE IF events = <<>>
  THEN [cached |-> cached, ret |-> <<>>, inferred |-> FALSE,
        response |-> <<>>, signals |-> <<>>]
  ELSE LET response == RunInference(handle, generated)
           signals == ParseResponse(response, us, ts)
           filtered == FilterByConfidence(signals, min)
       IN  [cached |-> filtered, ret |-> filtered, inferred |-> TRUE,
            response |-> response, signals |-> signals]

\* std::clamp(threshold, 0.0, 1.0), in hundredths
Clamp(threshold) ==
  IF threshold < 0 THEN 0 ELSE IF threshold > 100 THEN 100 ELSE threshold

-----------------------------------------------------------------------------
(* Inputs of the analyzer *)

\* QwenClient::Infer lines 58-61: the sample response
SampleResponse ==
  <<JsonList(<<Dict([type |-> Str("RESEARCH_INTENT"), confidence |-> Num(75),
                     category |-> Str("technology")]),
               Dict([type |-> Str("COMPARISON_INTENT"), confidence |-> Num(60),
                     category |-> Str("electronics")])>>)>>

\* A record without confidence before a record below every bucket limit
NoConfidenceResponse ==
  <<JsonList(<<Dict([type |-> Str("PURCHASE_INTENT"),
                     category |-> Str("shoes")]),
               Dict([type |-> Str("ENGAGEMENT_INTENT"), confidence |-> Num(39),
                     category |-> Str("video")])>>)>>

\* An item that is not a record before a record with an unknown type name
UnknownTypeResponse ==
  <<JsonList(<<NonDict,
               Dict([type |-> Str("SHOPPING"), confidence |-> Num(69),
                     category |-> Str("misc")])>>)>>

\* A record whose type is a number, and a record without a type
NoTypeResponse ==
  <<JsonList(<<Dict([type |-> Num(3), confidence |-> Num(70),
                     category |-> Str("travel")]),
               Dict([confidence |-> Num(40), category |-> Str("music")])>>)>>

\* The texts the model runtime produces
ResponseInputs ==
  {SampleResponse, NoConfidenceResponse, UnknownTypeResponse, NoTypeResponse,
   <<Garbage>>, <<JsonNonList>>}

\* The number of items of the list a text reads as
ItemCount(text) ==
  IF JSONRead(text).seg = "list" THEN Len(JSONRead(text).items) ELSE 0

\* Values the unassigned members of an IntentSignal may hold: zeroes, the
\* members of an earlier signal, a value outside the enumeration
UninitializedSignals ==
  {[type |-> "PURCHASE_INTENT", confidence |-> "LOW", confidence_score |-> 0],
   [type |-> "NAVIGATION_INTENT", confidence |-> "LOW", confidence_score |-> 90],
   [type |-> "INVALID", confidence |-> "HIGH", confidence_score |-> 75]}

ModelPathInputs == {ModelFile, "/tmp/missing.gguf"}

AnalyzerEventInputs == {<<>>, <<LoadNews>>}

ThresholdInputs == {-20, 0, 60, 150}

-----------------------------------------------------------------------------
(* Actions of the IntentAnalyzer *)

\* What a call of the analyzer leaves behind; no call is made on a
\* destroyed analyzer, and a successful Initialize has loaded one more model
AnalyzerCalled(call) ==
  /\ ~destroyed
  /\ lastCall' = call
  /\ IF call.op = "Initialize" /\ call.ret
     THEN loaded < MaxLoads /\ loaded' = loaded + 1
     ELSE loaded' = loaded
  /\ UNCHANGED <<unloaded, destroyed>>
  /\ UNCHANGED <<storeVars, collectorVars, filterVars, envVars, fifoVars,
                 scrollVars, callerVars, threadVars>>

\* IntentAnalyzer::Initialize(model_path)
InitializeAnalyzer(model_path) ==
  /\ model_handle_' = LoadModel(model_path)
  /\ is_ready_' = IF model_handle_' = 0 THEN is_ready_ ELSE TRUE
  /\ UNCHANGED <<cached_intents_, min_confidence_>>
  /\ AnalyzerCalled([op |-> "Initialize", model_path |-> model_path,
                     ret |-> model_handle_' # 0])

\* IntentAnalyzer::AnalyzeEvents(events)
AnalyzeEvents(events, generated, us) ==
  LET effect == AnalyzeEventsEffect(is_ready_, model_handle_, cached_intents_,
                                    min_confidence_, events, generated, us,
                                    now)
  IN  /\ cached_intents_' = effect.cached
      /\ UNCHANGED <<model_handle_, is_ready_, min_confidence_>>
      /\ AnalyzerCalled([op |-> "AnalyzeEvents", events |-> events,
                         inferred |-> effect.inferred,
                         response |-> effect.response,
                         signals |-> effect.signals, ret |-> effect.ret])

\* IntentAnalyzer::GetLatestIntents()
GetLatestIntents ==
  /\ UNCHANGED analyzerVars
  /\ AnalyzerCalled([op |-> "GetLatestIntents", ret |-> cached_intents_])

\* IntentAnalyzer::ClearIntents()
ClearIntents ==
  /\ cached_intents_' = <<>>
  /\ UNCHANGED <<model_handle_, is_ready_, min_confidence_>>
  /\ AnalyzerCalled([op |-> "ClearIntents"])

\* IntentAnalyzer::SetMinConfidence(threshold)
SetMinConfidence(threshold) ==
  /\ min_confidence_' = Clamp(threshold)
  /\ UNCHANGED <<model_handle_, is_ready_, cached_intents_>>
  /\ AnalyzerCalled([op |-> "SetMinConfidence", threshold |-> threshold])

AnalyzerNext ==
  \/ \E model_path \in ModelPathInputs : InitializeAnalyzer(model_path)
  \/ \E events \in AnalyzerEventInputs, generated \in ResponseInputs :
       \E us \in [1..ItemCount(generated) -> UninitializedSignals] :
         AnalyzeEvents(events, generated, us)
  \/ GetLatestIntents
  \/ ClearIntents
  \/ \E threshold \in ThresholdInputs : SetMinConfidence(threshold)
  \/ Tick

SpecAnalyzer == Init /\ [][AnalyzerNext]_vars

\* QwenClient::UnloadModel(handle): counted when the handle is not null
UnloadModel(handle, count) == IF handle = 0 THEN count ELSE count + 1

\* IntentAnalyzer::~IntentAnalyzer()
DestroyAnalyzer ==
  /\ ~destroyed
  /\ unloaded' = IF model_handle_ # 0 THEN UnloadModel(model_handle_, unloaded)
                 ELSE unloaded
  /\ model_handle_' = 0
  /\ destroyed' = TRUE
  /\ lastCall' = [op |-> "~IntentAnalyzer"]
  /\ UNCHANGED <<is_ready_, cached_intents_, min_confidence_, loaded>>
  /\ UNCHANGED <<storeVars, collectorVars, filterVars, envVars, fifoVars,
                 scrollVars, callerVars, threadVars>>

\* The life of one analyzer, from construction to destruction
LifetimeNext ==
  \/ AnalyzerNext
  \/ DestroyAnalyzer

SpecLifetime == Init /\ [][LifetimeNext]_vars

-----------------------------------------------------------------------------
(* The element selector sanitizer, called directly and through OnClick *)

\* setlocale(LC_CTYPE, ...) by the host process: the "C" and UTF-8 locales
\* have no letters above 0x7F, a Latin-1 locale has
LocaleInputs == {{}, HighBytes}

SetLocale(alpha) ==
  /\ ctype_alpha' = alpha
  /\ UNCHANGED <<storeVars, collectorVars, filterVars, now>>
  /\ Called([op |-> "setlocale", alpha |-> alpha], 0)

\* Selectors: "", "#id", "input[t]", "DIV.x", "h1", Latin-1 "Eclair" with a
\* capital E-acute, and "a" followed by a small e-acute and "-b"
SelectorCallInputs ==
  SelectorInputs
  \cup {<<>>,
        <<"#", "i", "d">>,
        <<"i", "n", "p", "u", "t", "[", "t", "]">>,
        <<"D", "I", "V", ".", "x">>,
        <<"h", "1">>,
        <<"0xC9", "c", "l", "a", "i", "r">>,
        <<"a", "0xE9", "-", "b">>}

\* PrivacyFilter::SanitizeElementSelector(selector), called directly: const
SanitizeElementSelectorCall(selector) ==
  /\ UNCHANGED <<storeVars, collectorVars, filterVars, envVars>>
  /\ Called([op |-> "SanitizeElementSelector", selector |-> selector,
             ret |-> SanitizeElementSelector(selector)], 0)

SelectorNext ==
  \/ \E alpha \in LocaleInputs : SetLocale(alpha)
  \/ \E selector \in SelectorCallInputs : SanitizeElementSelectorCall(selector)
  \/ \E selector \in SelectorCallInputs : OnClick(selector, FALSE)

SpecSelector == Init /\ [][SelectorNext]_vars

-----------------------------------------------------------------------------
(* Range queries of the EncryptedStore *)

\* The range query with both bounds exclusive
GetEventsInRangeExclusive(evs, start, end) ==
  SelectSeq(evs, LAMBDA event : event.timestamp > start /\ event.timestamp < end)

\* GetEventsInRange(start, end): the loop over events_
GetEventsInRange(evs, start, end) ==
  SelectSeq(evs, LAMBDA event : event.timestamp >= start /\ event.timestamp <= end)

\* Times handed to GetEventsInRange: the timestamps of the stored events, a
\* time between them and a time after them
TimeInputs == {LoadNews.timestamp, 2000, ClickA.timestamp, 3500}

\* EncryptedStore::GetEventsInRange(start, end) const
GetEventsInRangeCall(start, end) ==
  /\ UNCHANGED <<storeVars, collectorVars, filterVars, envVars>>
  /\ StoreCalled([op |-> "GetEventsInRange", start |-> start, end |-> end,
                  ret |-> GetEventsInRange(events_, start, end)], <<>>)

RangeNext ==
  \/ \E event \in EventInputs : StoreEvent(event)
  \/ ClearAll
  \/ \E start \in TimeInputs, end \in TimeInputs :
       GetEventsInRangeCall(start, end)

SpecRange == Init /\ [][RangeNext]_vars

-----------------------------------------------------------------------------
(* The EncryptedStore called from several threads.  The class holds no lock  *)
(* (encrypted_store.h has no synchronization member), so the statements of   *)
(* StoreEvent of one thread interleave with the calls of the others.  The    *)
(* push_back and the erase are each taken as one step; a reader runs between *)
(* any two steps.                                                            *)

ThreadCalled ==
  UNCHANGED <<encryption_key_, collectorVars, filterVars, envVars, callVars,
              fifoVars, scrollVars, callerVars, analyzerVars, runtimeVars>>

\* StoreEvent line 37: events_.push_back(event)
StoreEventPush(t, event) ==
  /\ pc[t] = "idle"
  /\ Len(pushLog) < MaxEvents
  /\ events_' = Append(events_, event)
  /\ pc' = [pc EXCEPT ![t] = "trim"]
  /\ pushLog' = Append(pushLog, event)
  /\ UNCHANGED observed
  /\ ThreadCalled

\* StoreEvent lines 40-42: the test of the size and the erase, then return
StoreEventTrim(t) ==
  /\ pc[t] = "trim"
  /\ events_' = IF Len(events_) > kMaxCachedEvents THEN Tail(events_)
                ELSE events_
  /\ pc' = [pc EXCEPT ![t] = "idle"]
  /\ UNCHANGED <<observed, pushLog>>
  /\ ThreadCalled

\* EncryptedStore::GetEventCount() on a reader thread
ReadEventCount ==
  /\ observed' = [op |-> "GetEventCount", size |-> Len(events_)]
  /\ UNCHANGED <<events_, pc, pushLog>>
  /\ ThreadCalled

\* EncryptedStore::GetAllEvents() on a reader thread
ReadAllEvents ==
  /\ observed' = [op |-> "GetAllEvents", size |-> Len(events_),
                  events |-> events_]
  /\ UNCHANGED <<events_, pc, pushLog>>
  /\ ThreadCalled

ThreadsNext ==
  \/ \E t \in Threads, event \in RoundTripEvents : StoreEventPush(t, event)
  \/ \E t \in Threads : StoreEventTrim(t)
  \/ ReadEventCount
  \/ ReadAllEvents

SpecThreads == Init /\ [][ThreadsNext]_vars

-----------------------------------------------------------------------------
(* Properties of the EncryptedStore, under SpecStore *)

\* C1: in every state reachable by StoreEvent, ImportEncrypted and ClearAll
\* calls, the store holds at most kMaxCachedEvents events when a StoreEvent
\* call has just returned.
C1_SizeWithinCapacityAfterStoreEvent ==
  lastCall.op = "StoreEvent" => Len(events_) <= kMaxCachedEvents

\* C2: once the store holds exactly kMaxCachedEvents events (fifoBase), the
\* N StoreEvent calls made since (fifoNew) have removed exactly the N oldest
\* events: the store holds the remaining old events followed by the N new
\* ones, in insertion order.
C2_StrictFifoEviction ==
  fifoBase # <<>> =>
    events_ = SubSeq(fifoBase, Len(fifoNew) + 1, kMaxCachedEvents) \o fifoNew

\* C2 witness: two different events stored on top of a full store whose two
\* oldest events differ
C2_Witness ==
  /\ lastCall.op = "StoreEvent"
  /\ fifoBase # <<>>
  /\ Len(fifoNew) = 2
  /\ fifoNew[1] # fifoNew[2]
  /\ fifoBase[1] # fifoBase[2]

\* The blob starts with the seal
Sealed(data) == data # <<>> /\ Head(data) = Prefix

\* What was sealed, or the blob itself when it was not sealed
Plaintext(data) == IF Sealed(data) THEN Tail(data) ELSE data

\* The store has no key to open a sealed blob with
Undecryptable(data) == Sealed(data) /\ encryption_key_ = ""

\* The plaintext is not a record list
Malformed(data) ==
  LET text == Plaintext(data)
  IN  ~(Len(text) = 1 /\ text[1].seg = "list")

IsDictItem(item) == item.isdict

\* recovered holds one event per record of the list, in the list's order,
\* each with the fields its record gives
RecoveredFrom(recovered, items) ==
  LET dicts == SelectSeq(items, IsDictItem)
  IN  /\ Len(recovered) = Len(dicts)
      /\ \A i \in 1..Len(dicts) :
           recovered[i] = ImportedEvent(dicts[i], recovered[i].type)

-----------------------------------------------------------------------------
(* Properties of the BrowsingDataCollector *)

Last(seq) == seq[Len(seq)]

CurrentFlags == Flags(exclude_banking_, exclude_healthcare_, exclude_social_media_)

\* after is before with exactly one event stored behind it, the oldest event
\* making room when before was full
StoredOne(before, after) ==
  /\ after # <<>>
  /\ after = (IF Len(before) < kMaxCachedEvents THEN before ELSE Tail(before))
             \o <<Last(after)>>

\* The step is a call of the hook op (the clock stands still during a call)
Calling(op) == lastCall'.op = op /\ now' = now

\* C3: a page-load or page-unload hook for a URL the PrivacyFilter excludes
\* at the time of the call leaves the store unchanged.  (SpecGates)
C3_ExcludedUrlStoresNothing ==
  [][(/\ lastCall'.op \in {"OnPageLoad", "OnPageUnload"}
      /\ IsExcluded(user_excluded_domains_, CurrentFlags, lastCall'.url))
     => events_' = events_]_vars

\* C4: a hook delivered from an off-the-record context stores no event and
\* leaves the running scroll depth unchanged.  (SpecGates)
C4_PrivateSessionStoresNothing ==
  [][(lastCall'.op \in Hooks /\ lastCall'.private)
     => /\ events_' = events_
        /\ current_scroll_depth_' = current_scroll_depth_]_vars

\* The kind of event each storing hook stores
StoredType(op) ==
  CASE op = "OnPageLoad" -> "PAGE_LOAD"
    [] op = "OnPageUnload" -> "PAGE_UNLOAD"
    [] op = "OnClick" -> "CLICK"
    [] op = "OnSearchQuery" -> "SEARCH_QUERY"
    [] op = "OnFormSubmit" -> "FORM_SUBMIT"

\* The step is the hook `call` doing its work with every gate open: OnScroll
\* raises the running depth to the deeper value, the other hooks store one
\* event of their kind (the inputs of SpecGates pass the sanitizer and the
\* form veto)
ProcessedNormally(call) ==
  IF call.op = "OnScroll"
  THEN /\ current_scroll_depth_' = Max(current_scroll_depth_, call.depth)
       /\ events_' = events_
  ELSE /\ StoredOne(events_, events_')
       /\ Last(events_').type = StoredType(call.op)

\* C5: while collection is disabled every hook leaves the store and the
\* running scroll depth unchanged; SetCollectionEnabled sets the flag and
\* leaves the stored events alone; a hook called right after collection is
\* re-enabled is processed normally.  (SpecGates)
C5_KillSwitch ==
  [][/\ (lastCall'.op \in Hooks /\ ~collection_enabled_)
        => /\ events_' = events_
           /\ current_scroll_depth_' = current_scroll_depth_
     /\ lastCall'.op = "SetCollectionEnabled"
        => /\ events_' = events_
           /\ collection_enabled_' = lastCall'.enabled
     /\ (/\ lastCall.op = "SetCollectionEnabled"
         /\ lastCall.enabled /\ ~lastCall.was
         /\ lastCall'.op \in Hooks
         /\ ~lastCall'.private
         /\ lastCall'.op \in {"OnPageLoad", "OnPageUnload"}
            => ~IsExcluded(user_excluded_domains_, CurrentFlags, lastCall'.url))
        => ProcessedNormally(lastCall')]_vars

\* C5 witness: with events in the store, a scroll deeper than the running
\* depth was delivered while collection was disabled
C5_Witness ==
  /\ lastCall.op = "OnScroll"
  /\ ~collection_enabled_
  /\ lastCall.depth > current_scroll_depth_
  /\ events_ # <<>>

\* The largest of base and the values of run
PeakOf(base, run) ==
  LET values == {base} \cup {run[i] : i \in 1..Len(run)}
  IN  CHOOSE m \in values : \A v \in values : v <= m

\* C6: OnScroll never stores an event and changes the running scroll depth
\* only when the new value is strictly greater, and then to that value; so
\* the PageUnload event stored after a run of OnScroll calls carries the
\* maximum of the scrolled values and of the depth the run began at (0 on a
\* new page), not the last value.  (SpecScroll)
C6_UnloadCarriesPeakScroll ==
  /\ [][lastCall'.op = "OnScroll"
        => /\ events_' = events_
           /\ current_scroll_depth_' # current_scroll_depth_
              => /\ lastCall'.depth > current_scroll_depth_
                 /\ current_scroll_depth_' = lastCall'.depth]_vars
  /\ []((lastCall.op = "OnPageUnload" /\ collection_enabled_)
        => /\ events_ # <<>>
           /\ Last(events_).type = "PAGE_UNLOAD"
           /\ Last(events_).scroll_depth = PeakOf(scrollBase, scrollRun)
           /\ (scrollRun # <<>> /\ scrollBase <= PeakOf(scrollRun[1], scrollRun))
              => Last(events_).scroll_depth = PeakOf(scrollRun[1], scrollRun))

\* C6 witness: on a new page, OnScroll(0.3) then OnScroll(0.2) then
\* OnPageUnload stored an event with scroll depth 0.3
C6_Witness ==
  /\ lastCall.op = "OnPageUnload"
  /\ collection_enabled_
  /\ scrollBase = 0
  /\ scrollRun = <<3, 2>>
  /\ Last(events_).scroll_depth = 3

\* C7: the scroll depth of a stored PageUnload event is the peak of the
\* OnScroll values delivered since the most recent OnPageLoad call, 0 if
\* there were none.  (SpecScroll)
C7_UnloadDepthSinceLastPageLoad ==
  (lastCall.op = "OnPageUnload" /\ collection_enabled_)
    => Last(events_).scroll_depth = peakSinceLoad

\* The field-type labels that indicate a password or a payment field
SensitiveFieldTypes == {"password", "credit-card"}

\* C8: OnFormSubmit stores no event when a submitted field-type label
\* indicates a password or payment field, and stores exactly one FormSubmit
\* event when none does and no gate applies.  (SpecForms)
C8_FormSubmitVeto ==
  [][Calling("OnFormSubmit")
     => LET types == lastCall'.field_types
        IN  IF \E i \in 1..Len(types) : types[i] \in SensitiveFieldTypes
            THEN events_' = events_
            ELSE (collection_enabled_ /\ ~lastCall'.private)
                 => /\ StoredOne(events_, events_')
                    /\ Last(events_').type = "FORM_SUBMIT"]_vars

\* C8 witness: ["text", "password"] was submitted with every gate open
C8_Witness ==
  /\ lastCall.op = "OnFormSubmit"
  /\ lastCall.field_types = <<"text", "password">>
  /\ collection_enabled_
  /\ ~lastCall.private

\* C9: OnSearchQuery leaves the store unchanged when SanitizeSearchQuery
\* yields the empty string; otherwise, no gate applying, it stores exactly
\* one SearchQuery event whose search_query is the sanitized text; whatever
\* it stores carries the sanitized text, never the raw input.  (SpecForms)
C9_SearchQueryStoredSanitized ==
  [][Calling("OnSearchQuery")
     => LET sanitized == SanitizeSearchQuery(lastCall'.query)
        IN  /\ sanitized = <<>> => events_' = events_
            /\ (sanitized # <<>> /\ collection_enabled_ /\ ~lastCall'.private)
               => /\ StoredOne(events_, events_')
                  /\ Last(events_').type = "SEARCH_QUERY"
            /\ events_' # events_
               => Last(events_').search_query = sanitized]_vars

\* C9 witness: a query with a phone number was stored with the number
\* replaced by the marker
C9_Witness ==
  /\ lastCall.op = "OnSearchQuery"
  /\ lastCall.query = <<Shoes, Phone>>
  /\ collection_enabled_
  /\ events_ # <<>>
  /\ Last(events_).type = "SEARCH_QUERY"
  /\ Last(events_).search_query = <<Shoes, Redacted>>

-----------------------------------------------------------------------------
(* Properties of the export format *)

\* The members of an event the round trip is stated on
Claimed(event) ==
  [type |-> event.type, url_hash |-> event.url_hash,
   scroll_depth |-> event.scroll_depth, element_type |-> event.element_type,
   search_query |-> event.search_query, timestamp |-> event.timestamp]

ClaimedSeq(evs) == [i \in 1..Len(evs) |-> Claimed(evs[i])]

Serialization(evs) == JSONWrite([i \in 1..Len(evs) |-> EventDict(evs[i])])

\* C12: Initialize with a key shorter than the minimum length returns false,
\* and a store whose Initialize has never succeeded (its key is still empty)
\* never returns the unencrypted record serialization of the events it holds
\* from ExportEncrypted.  (SpecRoundTrip)
C12_FailsClosedWithoutKey ==
  /\ (lastCall.op = "Initialize" /\ Len(lastCall.key) < kMinKeyLength)
       => ~lastCall.ret
  /\ (lastCall.op = "ExportEncrypted" /\ encryption_key_ = "" /\ events_ # <<>>)
       => exported.blob # Serialization(events_)

-----------------------------------------------------------------------------
(* Properties of the PrivacyFilter *)

EndsWith(s, suffix) ==
  /\ Len(s) >= Len(suffix)
  /\ SubSeq(s, Len(s) - Len(suffix) + 1, Len(s)) = suffix

\* host is the user-excluded domain d or a dot-separated subdomain of it
UnderDomain(host, d) == host = d \/ EndsWith(host, <<".">> \o d)

\* The keyword lists of the categories whose flag is on
EnabledKeywords ==
  (IF exclude_banking_
   THEN {kBankingDomains[i] : i \in 1..Len(kBankingDomains)} ELSE {})
  \cup (IF exclude_healthcare_
        THEN {kHealthcareDomains[i] : i \in 1..Len(kHealthcareDomains)} ELSE {})
  \cup (IF exclude_social_media_
        THEN {kSocialMediaDomains[i] : i \in 1..Len(kSocialMediaDomains)} ELSE {})

\* host contains keyword, letter case ignored
ContainsIgnoringCase(host, keyword) ==
  \E i \in 1..(Len(host) - Len(keyword) + 1) :
    \A j \in 1..Len(keyword) :
      ToLowerChar(host[i + j - 1]) = ToLowerChar(keyword[j])

\* C13: for a valid URL, IsExcluded is true when the host equals a
\* user-excluded domain d or ends with "." + d, and false when the host
\* matches no user-excluded domain in that way and contains no keyword of an
\* enabled category; a host that only ends with d, without the dot, is not
\* excluded by d.  (SpecFilter)
C13_UserExcludedByDotSuffix ==
  (lastCall.op = "IsExcludedSite" /\ lastCall.url.valid)
    => LET host == lastCall.url.host
           under == \E d \in user_excluded_domains_ : UnderDomain(host, d)
       IN  /\ under => lastCall.ret
           /\ (/\ ~under
               /\ \A k \in EnabledKeywords : ~ContainsIgnoringCase(host, k))
              => ~lastCall.ret

\* C13 witness: with news.org excluded, badnews.org was asked about and
\* found not excluded
C13_Witness ==
  /\ lastCall.op = "IsExcludedSite"
  /\ lastCall.url = UrlBadNews
  /\ UrlNews.host \in user_excluded_domains_
  /\ ~lastCall.ret

\* The two domains are the same up to letter case
SameUpToCase(d1, d2) == ToLowerASCII(d1) = ToLowerASCII(d2)

\* The exclusion list holds an entry that is domain up to letter case
Listed(excluded, domain) == \E x \in excluded : SameUpToCase(x, domain)

ListOps == {"AddExcludedSite", "RemoveExcludedSite"}

\* C14: AddExcludedDomain and RemoveExcludedDomain are idempotent and
\* case-insensitive: a second call of the same operation with the same
\* domain, in any letter case, leaves the exclusion set as the first call
\* left it; after an add the domain is present and after a remove it is
\* absent in every letter case, so a remove after an add of the same domain
\* up to case leaves it absent.  (SpecFilter)
C14_ExclusionListIdempotentCaseInsensitive ==
  [][lastCall'.op \in ListOps
     => /\ (/\ lastCall.op = lastCall'.op
            /\ SameUpToCase(lastCall.domain, lastCall'.domain))
           => user_excluded_domains_' = user_excluded_domains_
        /\ lastCall'.op = "AddExcludedSite"
           => /\ Listed(user_excluded_domains_', lastCall'.domain)
              /\ IsUserExcluded(user_excluded_domains_',
                                ToLowerASCII(lastCall'.domain))
        /\ lastCall'.op = "RemoveExcludedSite"
           => /\ ~Listed(user_excluded_domains_', lastCall'.domain)
              /\ \A x \in user_excluded_domains_ :
                   ~SameUpToCase(x, lastCall'.domain)
                     => x \in user_excluded_domains_']_vars

\* C14 witness: news.org, present with another entry, was removed under the
\* spelling News.org
C14_Witness ==
  /\ lastCall.op = "RemoveExcludedSite"
  /\ lastCall.domain # ToLowerASCII(lastCall.domain)
  /\ lastCall.was
  /\ user_excluded_domains_ # {}
  /\ UrlNews.host \notin user_excluded_domains_

\* C15: a freshly constructed filter excludes Banking and Healthcare and not
\* SocialMedia; and whenever IsExcluded is asked about a valid URL whose host
\* is not user-excluded, it is true exactly when the host contains, letter
\* case ignored, a keyword of a category whose flag is on.  (SpecFilter)
C15_CategoryFlagsDecide ==
  /\ lastCall.op = "construct"
       => exclude_banking_ /\ exclude_healthcare_ /\ ~exclude_social_media_
  /\ (/\ lastCall.op = "IsExcludedSite"
      /\ lastCall.url.valid
      /\ ~IsUserExcluded(user_excluded_domains_, lastCall.url.host))
       => (lastCall.ret <=>
             \E k \in EnabledKeywords :
               ContainsIgnoringCase(lastCall.url.host, k))

\* C15 witness: with the banking flag switched off and the social media flag
\* left off, a social media host was found not excluded
C15_Witness ==
  /\ lastCall.op = "IsExcludedSite"
  /\ lastCall.url = UrlReddit
  /\ ~exclude_banking_
  /\ ~exclude_social_media_
  /\ ~lastCall.ret

\* The shapes of text that some entry of kPiiPatterns matches
PiiShapes ==
  {"email", "ddd-ddd-dddd", "ddd-dd-dddd", "d16", "ddddd", "ddddd-dddd"}

\* query with every PII match replaced by the marker
WithMarkers(query) ==
  [i \in 1..Len(query) |->
     IF query[i].shape \in PiiShapes THEN Redacted ELSE query[i]]

\* The markers in text, typed ones included
MarkerCount(text) == Cardinality({i \in 1..Len(text) : text[i] = Redacted})

\* What both readings of C16 share: a result that is not empty is the query
\* with every PII match replaced by the marker; three distinct emails give
\* the empty string; one phone number and no other PII gives the query with
\* only the number replaced
SanitizeReplaces(call) ==
  /\ call.ret # <<>> => call.ret = WithMarkers(call.query)
  /\ call.query = ThreeEmails => call.ret = <<>>
  /\ call.query = <<Shoes, Phone>> => call.ret = <<Shoes, Redacted>>

\* C16 as stated: SanitizeSearchQuery replaces every PII match with the
\* marker and returns the empty string exactly when more than 2 markers
\* result.  (SpecFilter)
C16_EmptyExactlyWhenOverTwoMarkers ==
  lastCall.op = "SanitizeSearchQuery"
    => /\ SanitizeReplaces(lastCall)
       /\ lastCall.ret = <<>> <=> MarkerCount(WithMarkers(lastCall.query)) > 2

\* C16 amended: SanitizeSearchQuery replaces every PII match with the marker
\* and returns the empty string exactly when more than 2 markers result or
\* the query is itself empty.  (SpecFilter)
C16_EmptyWhenOverTwoMarkersOrEmptyQuery ==
  lastCall.op = "SanitizeSearchQuery"
    => /\ SanitizeReplaces(lastCall)
       /\ lastCall.ret = <<>>
            <=> \/ MarkerCount(WithMarkers(lastCall.query)) > 2
                \/ lastCall.query = <<>>

\* C16 witness: a query of three distinct emails was sanitized to the empty
\* string
C16_Witness ==
  /\ lastCall.op = "SanitizeSearchQuery"
  /\ lastCall.query = ThreeEmails
  /\ lastCall.ret = <<>>

-----------------------------------------------------------------------------
(* Properties of the IntentAnalyzer, under SpecAnalyzer *)

Range(seq) == {seq[i] : i \in 1..Len(seq)}

\* The analyzer is Ready
Ready == IsReady(is_ready_, model_handle_)

\* C17: AnalyzeEvents called with an empty event list, or on an analyzer
\* that is not Ready, returns an empty list without invoking the model
\* runtime and without changing the cached signal batch.  (SpecAnalyzer)
C17_NoInferenceWhenEmptyOrNotReady ==
  [][Calling("AnalyzeEvents") /\ (lastCall'.events = <<>> \/ ~Ready)
       => /\ lastCall'.ret = <<>>
          /\ ~lastCall'.inferred
          /\ cached_intents_' = cached_intents_]_vars

\* C17 witness: a Ready analyzer holding a cached batch was given an empty
\* event list, returned nothing and still holds the batch
C17_Witness ==
  /\ lastCall.op = "AnalyzeEvents"
  /\ lastCall.events = <<>>
  /\ Ready
  /\ lastCall.ret = <<>>
  /\ cached_intents_ # <<>>

\* The signals of a list whose score is at least the threshold, in order
AtLeast(signals, threshold) ==
  SelectSeq(signals, LAMBDA signal : signal.confidence_score >= threshold)

\* C18: every AnalyzeEvents call that runs inference returns exactly the
\* parsed signals whose confidence_score is at least the min_confidence in
\* effect at the call, in the model's order, and replaces the cache with
\* that same list, so that GetLatestIntents immediately afterwards returns
\* the returned result.  (SpecAnalyzer)
C18_ReturnsFilteredAndCaches ==
  [][/\ Calling("AnalyzeEvents") /\ lastCall'.inferred
          => /\ lastCall'.ret = AtLeast(lastCall'.signals, min_confidence_)
             /\ cached_intents_' = lastCall'.ret
     /\ lastCall.op = "AnalyzeEvents" /\ lastCall.inferred
          /\ lastCall'.op = "GetLatestIntents"
          => lastCall'.ret = lastCall.ret]_vars

\* C18 witness: with the threshold set to 0.60 the sample response was
\* analyzed; the signal scored exactly 0.60 is returned and cached
C18_Witness ==
  /\ lastCall.op = "AnalyzeEvents"
  /\ lastCall.inferred
  /\ lastCall.response = SampleResponse
  /\ min_confidence_ = 60
  /\ Len(lastCall.ret) = 2
  /\ lastCall.ret[2].confidence_score = 60
  /\ cached_intents_ = lastCall.ret

\* The records of a response that reads as a list, in order; the k-th signal
\* parsed from the response is the one built from the k-th record
Records(response) ==
  IF JSONRead(response).seg = "list"
  THEN SelectSeq(JSONRead(response).items, IsDictItem) ELSE <<>>

\* Whether a record has a field of that name
HasField(record, key) == key \in DOMAIN record.fields

\* C19: a model-response record that has no confidence field never appears
\* in the result of AnalyzeEvents nor in the cached batch, whatever
\* min_confidence is.  (SpecAnalyzer)
C19_NoConfidenceRecordDropped ==
  [][Calling("AnalyzeEvents") /\ lastCall'.inferred
       => LET records == Records(lastCall'.response)
          IN  \A k \in 1..Len(records) :
                ~HasField(records[k], "confidence")
                  => /\ lastCall'.signals[k] \notin Range(lastCall'.ret)
                     /\ lastCall'.signals[k] \notin Range(cached_intents_')]_vars

\* The four type names ParseResponse recognizes
RecognizedTypes == {"PURCHASE_INTENT", "RESEARCH_INTENT", "COMPARISON_INTENT",
                    "ENGAGEMENT_INTENT"}

\* A record whose type is one of the recognized names
HasRecognizedType(record) ==
  /\ HasField(record, "type")
  /\ "str" \in DOMAIN record.fields.type
  /\ record.fields.type.str \in RecognizedTypes

\* C20: every signal produced by parsing a model response has a type among
\* Purchase, Research, Comparison, Engagement and Navigation, and any record
\* whose type is not one of the four recognized names (an unrecognized
\* string, or no usable type) is given type Navigation.  (SpecAnalyzer)
C20_TypeInEnumAndNavigationByDefault ==
  [][Calling("AnalyzeEvents") /\ lastCall'.inferred
       => LET records == Records(lastCall'.response)
          IN  \A k \in 1..Len(records) :
                /\ lastCall'.signals[k].type \in IntentTypes
                /\ ~HasRecognizedType(records[k])
                     => lastCall'.signals[k].type = "NAVIGATION_INTENT"]_vars

\* The level the specification gives a score in hundredths
LevelOf(score) ==
  IF score < 40 THEN "LOW" ELSE IF score >= 70 THEN "HIGH" ELSE "MEDIUM"

\* C21: for every signal, confidence_level is Low when confidence_score is
\* below 0.4, Medium when it is at least 0.4 and below 0.7, and High when it
\* is at least 0.7; 0.39 is Low, 0.40 and 0.69 are Medium, 0.70 is High.
\* (SpecAnalyzer)
C21_LevelMatchesScore ==
  lastCall.op = "AnalyzeEvents"
    => \A signal \in Range(lastCall.signals) \cup Range(cached_intents_) :
         signal.confidence = LevelOf(signal.confidence_score)


\* C22: a failed Initialize returns false and leaves the analyzer in the
\* state it had before the call, so that an analyzer that is Ready stays
\* Ready through every later Initialize (with any path), AnalyzeEvents,
\* ClearIntents and setter call.  (SpecAnalyzer)
C22_FailedInitializeLeaksNothing ==
  [][/\ Calling("Initialize") /\ ~lastCall'.ret => UNCHANGED analyzerVars
     /\ Ready => Ready']_vars


\* The response does not read as a JSON list
Unparsable(response) == JSONRead(response).seg # "list"

\* C23: when the model's response cannot be parsed as a list of records,
\* AnalyzeEvents returns an empty list and leaves the previously cached
\* signal batch untouched.  (SpecAnalyzer)
C23_UnparsableResponseKeepsCache ==
  [][Calling("AnalyzeEvents") /\ lastCall'.inferred
       /\ Unparsable(lastCall'.response)
       => /\ lastCall'.ret = <<>>
          /\ cached_intents_' = cached_intents_]_vars


-----------------------------------------------------------------------------
(* Properties of the EncryptedStore called from several threads, under      *)
(* SpecThreads                                                              *)

\* The store after StoreEvent calls run one after the other
RECURSIVE Serial(_, _)
Serial(evs, log) ==
  IF log = <<>> THEN evs
  ELSE Serial(IF Len(evs) + 1 > kMaxCachedEvents
              THEN Tail(Append(evs, Head(log))) ELSE Append(evs, Head(log)),
              Tail(log))

\* C24: with StoreEvent running concurrently with other StoreEvent calls
\* and with readers, append and evict form one atomic unit: no reader
\* observes a store larger than the capacity, that is a sequence in the
\* middle of an eviction, and once the calls have returned the store holds
\* what the calls one after the other would have left.  (SpecThreads)
C24_AppendEvictAtomic ==
  /\ observed.op # "none" => observed.size <= kMaxCachedEvents
  /\ (\A t \in Threads : pc[t] = "idle") => events_ = Serial(<<>>, pushLog)


-----------------------------------------------------------------------------
(* Properties of the range query, under SpecRange *)

\* The events of a list stamped from start to end, both included, in the
\* order of the list
RECURSIVE Within(_, _, _)
Within(evs, start, end) ==
  IF evs = <<>> THEN <<>>
  ELSE (IF start <= Head(evs).timestamp /\ Head(evs).timestamp <= end
        THEN <<Head(evs)>> ELSE <<>>) \o Within(Tail(evs), start, end)

\* C25: GetEventsInRange(start, end) returns exactly the stored events with
\* start <= timestamp <= end, both bounds included, in their stored order,
\* returns an empty result when start > end, and never modifies the store.
\* (SpecRange)
C25_RangeInclusiveOrderedReadOnly ==
  [][lastCall'.op = "GetEventsInRange"
       => /\ lastCall'.ret = Within(events_, lastCall'.start, lastCall'.end)
          /\ lastCall'.start > lastCall'.end => lastCall'.ret = <<>>
          /\ UNCHANGED storeVars]_vars

\* C25 witness: the store holds a click stamped 3000 before a page load
\* stamped 1500, and the query from 1500 to 3000 returned both, in that order
C25_Witness ==
  /\ lastCall.op = "GetEventsInRange"
  /\ lastCall.start = LoadNews.timestamp
  /\ lastCall.end = ClickA.timestamp
  /\ events_ = <<ClickA, LoadNews>>
  /\ lastCall.ret = <<ClickA, LoadNews>>


-----------------------------------------------------------------------------
(* Properties of the stored sequence *)

\* C26: in every state reachable by hook calls, StoreEvent, ImportEncrypted
\* and ClearAll, the stored sequence is in chronological order: each event's
\* timestamp is at least the timestamp of the event stored before it.
\* (SpecStore)
C26_StoredInChronologicalOrder ==
  \A i \in 2..Len(events_) : events_[i].timestamp >= events_[i - 1].timestamp


\* C27: every event the collector stores has scroll_depth within [0.0, 1.0]
\* (0 to 10 tenths), for any sequence of hook calls and any depth values
\* passed to OnScroll.  (SpecScroll)
C27_ScrollDepthIsFraction ==
  \A event \in Range(events_) :
    0 <= event.scroll_depth /\ event.scroll_depth <= 10


-----------------------------------------------------------------------------
(* Properties of the analyzer's model handle, under SpecLifetime *)

\* C29: every model handle acquired by a successful Initialize is unloaded
\* exactly once by the time the analyzer is destroyed, for any number and
\* order of successful and failed Initialize calls on the same analyzer:
\* as many handles have been unloaded as were loaded.  (SpecLifetime)
C29_EveryHandleUnloadedOnce ==
  destroyed => unloaded = loaded


-----------------------------------------------------------------------------
(* Properties of the keyed import, under SpecStore *)

\* C30: with an encryption key configured, ImportEncrypted accepts only
\* blobs that were sealed: a blob that is not the output of sealing, such as
\* a bare serialized record list, makes it return false and leaves the store
\* unchanged.  (SpecStore)
C30_KeyedImportAcceptsOnlySealed ==
  [][lastCall'.op = "ImportEncrypted" /\ encryption_key_ # ""
       /\ ~Sealed(lastCall'.data)
       => ~lastCall'.ret /\ events_' = events_]_vars


-----------------------------------------------------------------------------
(* Properties of the element selector sanitizer, under SpecSelector *)

Unknown == <<"u", "n", "k", "n", "o", "w", "n">>

\* A lower-case letter, ASCII or small e-acute
IsLowerLetter(c) == IsLower(c) \/ c = "0xE9"

\* The lower-case form of a letter
LowerLetter(c) == IF c = "0xC9" THEN "0xE9" ELSE ToLowerChar(c)

\* The longest leading run of characters that are alphabetic for isalpha
RECURSIVE AlphaRun(_)
AlphaRun(selector) ==
  IF selector = <<>> \/ ~IsAlpha(selector[1]) THEN <<>>
  ELSE <<selector[1]>> \o AlphaRun(Tail(selector))

\* A non-empty string of lower-case letters
IsLowerWord(s) == s # <<>> /\ \A i \in 1..Len(s) : IsLowerLetter(s[i])

\* C31: SanitizeElementSelector returns the longest leading run of
\* alphabetic characters of the selector in lower case, or "unknown" when
\* the selector does not start with a letter; hence its result, and the
\* element_type of every stored Click event, is always a non-empty string of
\* lower-case letters.  (SpecSelector)
C31_SelectorIsLowerCaseTag ==
  /\ lastCall.op = "SanitizeElementSelector"
       => /\ lastCall.ret =
               (IF AlphaRun(lastCall.selector) = <<>> THEN Unknown
                ELSE [i \in 1..Len(AlphaRun(lastCall.selector)) |->
                        LowerLetter(AlphaRun(lastCall.selector)[i])])
          /\ IsLowerWord(lastCall.ret)
  /\ \A event \in Range(events_) :
       event.type = "CLICK" => IsLowerWord(event.element_type)

=============================================================================
